---- MODULE Spec2Model ----
(***************************************************************************)
(* A model of amuset_tica.py: the AmusetTICA object (build / covariance /  *)
(* fit / transform / save / load) and the module-level sequence adapter.   *)
(*                                                                         *)
(* Numbers.  A matrix is a sequence of rows.  A feature matrix holds       *)
(* integers.  A row of an outer product is a symbolic term                 *)
(*     [kind, i, of, by, e]                                                *)
(* standing for the real row   base[t] * exp(-e[t]/8),  t = 1..n_frames:   *)
(*   kind "one"  : base is the all-ones row (numpy.ones)                   *)
(*   kind "v"    : base is row i of the right singular vectors of the      *)
(*                 matrix of[1] (scipy.linalg.svd, full_matrices=False)    *)
(*   kind "proj" : base is row i of diag(1/s).U^T.of[2], U and s being the *)
(*                 factors of of[1], for a matrix of[2] other than of[1]   *)
(*   kind "nan"  : row i of diag(1/s).U^T.of[2] where s[i] = 0: 1.0/0 is   *)
(*                 inf and the row holds inf/nan, not a singular vector    *)
(*   kind "in"   : base is row i of a matrix given by the caller            *)
(*   kind "eig"  : row i of vr^T.of[1] (i > 0) or of inv(vr).of[1] (i < 0) *)
(*                 for the eigenvector matrix by[1]                        *)
(* Since U^T.U = I, diag(1/s).U^T.M is the matrix of right singular        *)
(* vectors of M on the rows whose singular value is not zero.              *)
(* Indices are 1-based here where Python's are 0-based.                    *)
(***************************************************************************)
EXTENDS Integers, Sequences, FiniteSets, TLC

VARIABLES self, snap, built, last

vars == <<self, snap, built, last>>

(* ------------------------------ bounds -------------------------------- *)

\* SpecBuild: total number of frames of a trajectory set
MaxFrames == 2
\* SpecBuild: number of feature dimensions of a basis list
MaxDims == 2
\* SpecBuild: number of basis functions of one feature dimension
MaxBasis == 1
\* SpecBuild: largest max_rank given to the constructor
MaxRank == 2
\* the adapter round trip: features per frame, frames in total
MaxFeat == 3
SeqFrames == 2
\* covariance: rows of the input, trajectories, frames of one trajectory,
\* lag time, largest eigenvalue (the smallest is -1)
MaxRows == 3
MaxTrajs == 2
MaxLen == 3
MaxLag == 2
MaxEig == 1
\* the life of one model: largest max_rank, frames in total, lag time
LifeRank == 1
LifeFrames == 2
LifeLag == 1

(* ------------------------------ helpers ------------------------------- *)

Min(a, b) == IF a < b THEN a ELSE b

Max(a, b) == IF a < b THEN b ELSE a

RECURSIVE SumSeq(_)
SumSeq(s) == IF s = <<>> THEN 0 ELSE Head(s) + SumSeq(Tail(s))

RECURSIVE Flatten(_)
Flatten(ss) == IF ss = <<>> THEN <<>> ELSE Head(ss) \o Flatten(Tail(ss))

\* python range(a, b) / numpy.arange(a, b) as a sequence: a, a+1, ..., b-1
Range(a, b) == [k \in 1..Max(0, b - a) |-> a + k - 1]

\* python m[a:b] on a sequence (0-based, clipped to the length, as slicing does)
Slice(m, a, b) == [k \in 1..Max(0, Min(b, Len(m)) - Min(a, Len(m))) |-> m[a + k]]

\* numpy .T of a matrix with at least one row
Transpose(m) == [c \in 1..Len(m[1]) |-> [r \in 1..Len(m) |-> m[r][c]]]

(* -------------------------- sequence adapter -------------------------- *)

\* numpy.hstack of the transposed trajectories: [n_features, n_all_frames]
HStackT(sequences) ==
    LET nfeat == Len(sequences[1][1])
    IN  [f \in 1..nfeat |-> Flatten([k \in 1..Len(sequences) |->
                                        [t \in 1..Len(sequences[k]) |-> sequences[k][t][f]]])]

ConvertSequences(sequences) ==
    [data_matrix |-> HStackT(sequences),
     traj_lens   |-> [k \in 1..Len(sequences) |-> Len(sequences[k])]]

\* the slicing loop shared by _convert_to_sequences and _transform:
\* seq.append(data_[op:op+traj_lens[it], :]); op += traj_lens[it]
RECURSIVE SliceRows(_, _, _)
SliceRows(data_, traj_lens, op) ==
    IF traj_lens = <<>> THEN <<>>
    ELSE <<Slice(data_, op, op + Head(traj_lens))>>
             \o SliceRows(data_, Tail(traj_lens), op + Head(traj_lens))

\* mutant: the orientation test is >= instead of >
ConvertToSequences_ge(data, traj_lens) ==
    LET data_ == IF Len(data) >= Len(data[1]) THEN data ELSE Transpose(data)
    IN  SliceRows(data_, traj_lens, 0)

ConvertToSequences(data, traj_lens) ==
    LET data_ == IF Len(data) > Len(data[1]) THEN data ELSE Transpose(data)
    IN  SliceRows(data_, traj_lens, 0)

(* ------------------------- symbolic real rows ------------------------- *)

Zeros(n) == [t \in 1..n |-> 0]

OneRow(e) == [e |-> e, kind |-> "one", i |-> 0, of |-> <<>>, by |-> <<>>]

VRow(i, m) == [e |-> Zeros(Len(m[1].e)), kind |-> "v", i |-> i, of |-> <<m>>, by |-> <<>>]

ProjRow(i, m, outer) ==
    [e |-> Zeros(Len(outer[1].e)), kind |-> "proj", i |-> i, of |-> <<m, outer>>, by |-> <<>>]

NanRow(i, m, outer) ==
    [e |-> Zeros(Len(outer[1].e)), kind |-> "nan", i |-> i, of |-> <<m, outer>>, by |-> <<>>]

EigRow(i, vr, input) ==
    [e |-> Zeros(Len(input[1].e)), kind |-> "eig", i |-> i, of |-> <<input>>, by |-> <<vr>>]

\* number of columns of a matrix of symbolic rows
NCols(m) == Len(m[1].e)

\* the number at column t of a symbolic row
Entry(row, t) ==
    [t |-> IF row.kind = "one" THEN 0 ELSE t, e |-> row.e[t], kind |-> row.kind, i |-> row.i,
     of |-> row.of, by |-> row.by]

\* m[idx, :] for a 1-based index sequence
Take(m, idx) == [p \in 1..Len(idx) |-> m[idx[p]]]

\* numpy.argsort (ascending; equal keys keep their order)
Argsort(s) ==
    [p \in 1..Len(s) |->
        CHOOSE i \in 1..Len(s) :
            Cardinality({j \in 1..Len(s) : s[j] < s[i] \/ (s[j] = s[i] /\ j < i)}) + 1 = p]

\* numpy.argsort(s)[::-1]
ArgsortDesc(s) == [p \in 1..Len(s) |-> Argsort(s)[Len(s) + 1 - p]]

(* ------------------------------- SVD ---------------------------------- *)

\* The rank of a matrix whose rows are all of kind "one" (entries exp(-e/8)):
\* a column of the expanded basis is the Kronecker product over the feature
\* dimensions of (1, g_1(x), ..., g_m(x)); every feature takes at most two
\* values in this model, two such vectors are equal or linearly independent,
\* and Kronecker products of independent families are independent: the rank
\* is the number of distinct columns.
DistinctColumns(m) == {[r \in 1..Len(m) |-> m[r].e[t]] : t \in 1..NCols(m)}

\* m is B.diag(w) for the matrix B of the numbers exp(-e/8) and a row w
\* without a zero: every row is of kind "one" (w is all ones), or every row
\* is built on the one right singular vector of a single positive row (w is
\* that row divided by its norm).  Then rank(m) = rank(B).
PositiveBase(m) ==
    \/ \A r \in 1..Len(m) : m[r].kind = "one"
    \/ \A r \in 1..Len(m) :
          /\ m[r].kind = "v" /\ m[r].i = 1 /\ m[r].of = m[1].of
          /\ Len(m[r].of[1]) = 1 /\ m[r].of[1][1].kind = "one"

\* How many singular values of m can be non-zero.  Exact when PositiveBase;
\* for other rows built on singular vectors the count depends on the
\* numbers, and any count from 1 (no row is zero) to min(shape) is allowed.
NonzeroCounts(m) ==
    IF PositiveBase(m)
    THEN {Cardinality(DistinctColumns(m))}
    ELSE 1..Min(Len(m), NCols(m))

\* scipy.linalg.svd(m, full_matrices=False): u [rows, k], s [k] descending,
\* v [k, frames], k = min(shape); nz of the singular values are non-zero.
SVD(m, nz) ==
    LET k == Min(Len(m), NCols(m))
    IN  [s |-> [i \in 1..k |-> IF i <= nz THEN nz + 1 - i ELSE 0],
         u |-> [k |-> k, m |-> Len(m), of |-> m],
         v |-> [i \in 1..k |-> VRow(i, m)]]

\* numpy.matmul(numpy.matmul(numpy.diag(1.0/s), numpy.array(u).T), outer)
ApplySVD(u, s, outer) ==
    LET poisoned == \E r \in 1..Len(outer) : outer[r].kind = "nan"
    IN  [i \in 1..u.k |->
            IF s[i] = 0 \/ poisoned THEN NanRow(i, u.of, outer)
            ELSE IF outer = u.of THEN VRow(i, u.of)
            ELSE ProjRow(i, u.of, outer)]

(* ----------------------- outer-product builder ------------------------ *)

\* the exponent of numpy.exp(-(x-mean)**2/2/sigma**2) in units of 1/8
\* (sigma is 1 or 2 in this model, so the division is exact)
GaussExp(x, mean, sigma) == (4 * (x - mean) * (x - mean)) \div (sigma * sigma)

\* mutant: the loop over the basis functions starts at the second one
OuterB_skip_first(basis_il, data_row) ==
    <<OneRow(Zeros(Len(data_row)))>> \o
    [i \in 1..(Len(basis_il) - 1) |->
        OneRow([t \in 1..Len(data_row) |->
                    GaussExp(data_row[t], basis_il[i + 1][1], basis_il[i + 1][2])])]

\* outer_b: the all-ones row, then one row per basis function of dimension il
OuterB(basis_il, data_row) ==
    <<OneRow(Zeros(Len(data_row)))>> \o
    [i \in 1..Len(basis_il) |->
        OneRow([t \in 1..Len(data_row) |->
                    GaussExp(data_row[t], basis_il[i][1], basis_il[i][2])])]

\* outer_a[i] * outer_b[j], elementwise
MulRow(a, b) == [a EXCEPT !.e = [t \in 1..Len(a.e) |-> a.e[t] + b.e[t]]]

\* for i: for j: outer.append(outer_a[i] * outer_b[j])
OuterMul(outer_a, outer_b) ==
    [p \in 1..(Len(outer_a) * Len(outer_b)) |->
        MulRow(outer_a[((p - 1) \div Len(outer_b)) + 1],
               outer_b[((p - 1) % Len(outer_b)) + 1])]

\* mutant: the intra-loop SVD is skipped for the first feature dimension
IntraSVDNeeded_skip_first(me, il) == me.max_rank > 0 /\ il > 1

\* `if self.max_rank>0:` at the top of the loop body
IntraSVDNeeded(me, il) == me.max_rank > 0

\* mutant: a pass that applies the model records a layer as a fitting pass does
LayerRecorded_when_applying(me, il, build_model) == IntraSVDNeeded(me, il)

\* the appends to _tt_u, _tt_s and _tt_indices are under `if build_model:`
LayerRecorded(me, il, build_model) == IntraSVDNeeded(me, il) /\ build_model

\* One pass of the loop body for 1-based dimension il, the SVD of a fitting
\* pass having nz non-zero singular values.  st holds the locals (outer,
\* i_intra_svd_layer), the layer lists as the pass leaves them and err (the
\* exception raised, "" for none).
OuterStep(me, basis_list, data_matrix, build_model, il, st, nz) ==
    LET l     == st.i_intra_svd_layer + 1
        svd   == SVD(st.outer, nz)
        ind   == ArgsortDesc(svd.s)
        err1  == IF ~IntraSVDNeeded(me, il) \/ build_model THEN ""
                 ELSE IF l > Len(st.tt_u) THEN "IndexError"
                 ELSE IF st.tt_u[l].m # Len(st.outer) THEN "ValueError" ELSE ""
        out1  == IF ~IntraSVDNeeded(me, il) \/ err1 # "" THEN st.outer
                 ELSE IF build_model THEN Take(svd.v, ind)
                 ELSE Take(ApplySVD(st.tt_u[l], st.tt_s[l], st.outer), st.tt_indices[l])
        grow  == LayerRecorded(me, il, build_model)
        cut   == me.max_rank > 0 /\ Len(out1) > me.max_rank
        err2  == IF err1 # "" THEN err1
                 ELSE IF cut /\ me.max_rank_is_float THEN "TypeError" ELSE ""
        out2  == IF cut /\ err2 = "" THEN Slice(out1, 0, me.max_rank) ELSE out1
        lay   == IF IntraSVDNeeded(me, il) /\ err1 = "" THEN l ELSE st.i_intra_svd_layer
    IN  [outer  |-> IF err2 # "" THEN out2
                    ELSE OuterMul(out2, OuterB(basis_list[il], data_matrix[il])),
         i_intra_svd_layer |-> lay,
         tt_u   |-> IF grow THEN Append(st.tt_u, svd.u) ELSE st.tt_u,
         tt_s   |-> IF grow THEN Append(st.tt_s, svd.s) ELSE st.tt_s,
         tt_indices |-> IF grow THEN Append(st.tt_indices, ind) ELSE st.tt_indices,
         tt_intra_svd_layers |-> IF build_model /\ err2 = "" THEN lay
                                 ELSE st.tt_intra_svd_layers,
         err    |-> err2]

\* the passes from dimension il on, for every way the singular values of the
\* fitting SVDs can vanish: the set of final values of the locals
RECURSIVE OuterLoop(_, _, _, _, _, _)
OuterLoop(me, basis_list, data_matrix, build_model, il, sts) ==
    IF il > Len(basis_list) THEN sts
    ELSE OuterLoop(me, basis_list, data_matrix, build_model, il + 1,
            UNION {IF st.err # "" THEN {st}
                   ELSE IF IntraSVDNeeded(me, il) /\ build_model
                   THEN {OuterStep(me, basis_list, data_matrix, build_model, il, st, nz)
                            : nz \in NonzeroCounts(st.outer)}
                   ELSE {OuterStep(me, basis_list, data_matrix, build_model, il, st, 0)}
                   : st \in sts})

\* _build_outer_product(self, basis_list, data_matrix, build_model): the set
\* of results (one result when applying: no SVD is computed then)
BuildOuterProduct(me, basis_list, data_matrix, build_model) ==
    OuterLoop(me, basis_list, data_matrix, build_model, 1,
              {[outer |-> <<OneRow(Zeros(Len(data_matrix[1])))>>,
                i_intra_svd_layer |-> 0, tt_u |-> me.tt_u, tt_s |-> me.tt_s,
                tt_indices |-> me.tt_indices,
                tt_intra_svd_layers |-> me.tt_intra_svd_layers,
                err |-> ""]})

(* ------------------------------ the model ----------------------------- *)

\* AmusetTICA.__init__; max_rank_is_float tells an int max_rank from the
\* float that load() stores.  K and vr_K are [] (<<>>) or hold one matrix.
NewModel(max_rank) ==
    [traj_lens |-> <<>>, max_rank |-> max_rank,
     basis_list |-> <<>>, tt_u |-> <<>>, tt_s |-> <<>>, tt_indices |-> <<>>,
     max_rank_is_float |-> FALSE, tt_intra_svd_layers |-> 0, rank_used |-> 0,
     K |-> <<>>, ev_K |-> <<>>, vr_K |-> <<>>, lagtime |-> 0, timescales |-> <<>>]

\* what an operation leaves in `last`: its name, arguments, exception, result
\* and the locals the claims speak of
Call(op, args, err, ret, locals) ==
    [op |-> op, err |-> err, args |-> args, ret |-> ret, locals |-> locals]

\* mutant: the last truncation of build is left out
BuildTruncates_never(me, cvs) == FALSE

\* `if self.max_rank>0 and len(cvs[0])>self.max_rank:` (len(cvs[0]) is the
\* number of frames)
BuildTruncates(me, cvs) == me.max_rank > 0 /\ NCols(cvs) > me.max_rank

\* the end of build for one result r of the fitting loop, the last SVD
\* having nz non-zero singular values: the model after the call, the
\* exception and the returned (cvs, traj_lens)
BuildFinish(me, me1, traj_lens, r, nz) ==
    LET me2  == [me1 EXCEPT !.tt_u = r.tt_u, !.tt_s = r.tt_s, !.tt_indices = r.tt_indices,
                            !.tt_intra_svd_layers = r.tt_intra_svd_layers]
        svd  == SVD(r.outer, nz)
        ind  == ArgsortDesc(svd.s)
        cvs0 == Take(svd.v, ind)
        cut  == BuildTruncates(me, cvs0)
        cvs  == IF cut THEN Slice(cvs0, 0, me.max_rank) ELSE cvs0
    IN  IF r.err # "" THEN [me |-> me2, err |-> r.err, ret |-> <<>>]
        ELSE IF cut /\ me.max_rank_is_float
        THEN [me |-> me2, err |-> "TypeError", ret |-> <<>>]
        ELSE [me  |-> [me2 EXCEPT !.tt_u = Append(r.tt_u, svd.u),
                                  !.tt_s = Append(r.tt_s, svd.s),
                                  !.tt_indices = Append(r.tt_indices, ind),
                                  !.rank_used = Len(cvs)],
              err |-> "",
              ret |-> <<[traj_lens |-> traj_lens, cvs |-> cvs]>>]

\* mutant: build keeps the layers the model already holds
BuildReset_keeps_layers(me, basis_list, traj_lens) ==
    [me EXCEPT !.basis_list = basis_list, !.traj_lens = traj_lens]

\* the start of build: the basis list is stored, the three layer lists are
\* emptied, the length table is stored
BuildReset(me, basis_list, traj_lens) ==
    [me EXCEPT !.basis_list = basis_list, !.tt_u = <<>>, !.tt_s = <<>>,
               !.tt_indices = <<>>, !.traj_lens = traj_lens]

\* build(basis_list, sequences): the set of outcomes, one for every way the
\* singular values of its SVDs can vanish
BuildResults(me, basis_list, sequences) ==
    LET conv == ConvertSequences(sequences)
        me1  == BuildReset(me, basis_list, conv.traj_lens)
    IN  UNION {IF r.err # "" THEN {BuildFinish(me, me1, conv.traj_lens, r, 0)}
               ELSE {BuildFinish(me, me1, conv.traj_lens, r, nz)
                        : nz \in NonzeroCounts(r.outer)}
               : r \in BuildOuterProduct(me1, basis_list, conv.data_matrix, TRUE)}

\* cvs_list: an integer n stands for range(1, 1+n); a list is used as given
\* (0-based component indices)
CvsList(sel) == IF sel.is_int THEN Range(1, 1 + sel.n) ELSE sel.list

\* _transform(input_data, traj_lens, cvs_list, use_right_vr, do_amuset_tica)
InnerTransform(me, input_data, traj_lens, cvs_list, use_right_vr, do_amuset_tica) ==
    LET n    == NCols(input_data)
        vr   == me.vr_K[1]
        err1 == IF ~do_amuset_tica THEN ""
                ELSE IF me.vr_K = <<>>
                     THEN (IF use_right_vr THEN "AttributeError" ELSE "LinAlgError")
                ELSE IF vr.n # Len(input_data) THEN "ValueError" ELSE ""
        rows == IF ~do_amuset_tica THEN input_data
                ELSE [i \in 1..vr.n |->
                        EigRow(IF use_right_vr THEN i ELSE 0 - i, vr, input_data)]
        err2 == IF err1 # "" THEN err1
                ELSE IF \E c \in 1..Len(cvs_list) : cvs_list[c] + 1 > Len(rows)
                     THEN "IndexError" ELSE ""
        all_data == [t \in 1..n |->
                        [c \in 1..Len(cvs_list) |-> Entry(rows[cvs_list[c] + 1], t)]]
    IN  [err |-> err2,
         ret |-> IF err2 # "" THEN <<>> ELSE SliceRows(all_data, traj_lens, 0)]

\* `if self.max_rank>0 and len(transform_v[0])>self.max_rank:` (len of row 0
\* is the number of frames being transformed)
TransformTruncates(me, transform_v) == me.max_rank > 0 /\ NCols(transform_v) > me.max_rank

\* the rest of transform once the loop has ended with the locals r: the
\* model as the call leaves it, the exception, the row count of transform_v
\* after the truncation, the result
TransformFinish(me, traj_lens, r, sel, use_right_vr, do_amuset_tica) ==
    LET L    == Len(me.tt_u)
        err1 == IF r.err # "" THEN r.err
                ELSE IF L = 0 THEN "IndexError"
                ELSE IF me.tt_u[L].m # Len(r.outer) THEN "ValueError" ELSE ""
        tv0  == Take(ApplySVD(me.tt_u[L], me.tt_s[L], r.outer), me.tt_indices[L])
        cut  == TransformTruncates(me, tv0)
        err2 == IF err1 # "" THEN err1
                ELSE IF cut /\ me.max_rank_is_float THEN "TypeError" ELSE ""
        tv   == IF cut THEN Slice(tv0, 0, me.max_rank) ELSE tv0
        in   == InnerTransform(me, tv, traj_lens, CvsList(sel),
                               use_right_vr, do_amuset_tica)
        me1  == [me EXCEPT !.tt_u = r.tt_u, !.tt_s = r.tt_s, !.tt_indices = r.tt_indices,
                           !.tt_intra_svd_layers = r.tt_intra_svd_layers]
    IN  IF err2 # "" THEN [me |-> me1, err |-> err2, ret |-> <<>>, rows |-> 0]
        ELSE [me |-> me1, err |-> in.err, ret |-> in.ret, rows |-> Len(tv)]

\* transform(sequences, cvs_list, use_right_vr, _do_amuset_tica)
TransformResult(me, sequences, sel, use_right_vr, do_amuset_tica) ==
    CHOOSE t \in UNION {{TransformFinish(me, conv.traj_lens, r, sel,
                                         use_right_vr, do_amuset_tica) :
                             r \in BuildOuterProduct(me, me.basis_list,
                                                     conv.data_matrix, FALSE)} :
                         conv \in {ConvertSequences(sequences)}}
        : TRUE

\* does_basis_overflow(self, basis_list)
RECURSIVE OverflowProduct(_, _)
OverflowProduct(basis_list, i) ==
    IF i > Len(basis_list) - 1 THEN 1
    ELSE (Len(basis_list[i]) + 1) * OverflowProduct(basis_list, i + 1)

DoesBasisOverflow(me, basis_list) ==
    me.max_rank > 0 /\ OverflowProduct(basis_list, 1) > me.max_rank

\* Basis.size(basis_list)
RECURSIVE BasisSize(_)
BasisSize(basis_list) ==
    IF basis_list = <<>> THEN 1
    ELSE (Len(Head(basis_list)) + 1) * BasisSize(Tail(basis_list))

(* ----------------------------- covariance ---------------------------- *)

\* mutant: pos is not advanced from one trajectory to the next
RECURSIVE CovIndices_pos_stuck(_, _, _)
CovIndices_pos_stuck(traj_lens, lag_time, pos) ==
    IF traj_lens = <<>> THEN [x |-> <<>>, y |-> <<>>]
    ELSE LET rest == CovIndices_pos_stuck(Tail(traj_lens), lag_time, pos)
         IN  [x |-> Range(pos, pos + Head(traj_lens) - lag_time) \o rest.x,
              y |-> Range(pos + lag_time, pos + Head(traj_lens)) \o rest.y]

\* the loop over the trajectories that builds x_indices and y_indices
\* (0-based column indices, as in the code)
RECURSIVE CovIndices(_, _, _)
CovIndices(traj_lens, lag_time, pos) ==
    IF traj_lens = <<>> THEN [x |-> <<>>, y |-> <<>>]
    ELSE LET rest == CovIndices(Tail(traj_lens), lag_time, pos + Head(traj_lens))
         IN  [x |-> Range(pos, pos + Head(traj_lens) - lag_time) \o rest.x,
              y |-> Range(pos + lag_time, pos + Head(traj_lens)) \o rest.y]

\* for i in range(1, len(ev_K)): collect ev_K[i] while it is > 0, else break
\* (i is 1-based here)
RECURSIVE TimescaleScan(_, _)
TimescaleScan(ev_K, i) ==
    IF i > Len(ev_K) \/ ~(ev_K[i] > 0) THEN <<>>
    ELSE <<ev_K[i]>> \o TimescaleScan(ev_K, i + 1)

\* mutant: the scan starts at the leading eigenvalue
TimescaleEigs_from_first(ev_K) == TimescaleScan(ev_K, 1)

\* ev_out: the scan starts at index 1 (0-based), the second eigenvalue
TimescaleEigs(ev_K) == TimescaleScan(ev_K, 2)

\* covariance(input_data, traj_lens, lag_time).  Two results of the numerics
\* are given: evK, the eigenvalues in the order numpy.linalg.eig returns them
\* (real numbers here, as integers), and singular, whether numpy.linalg.inv
\* raised LinAlgError.  A timescale -lag_time/log(ev) is kept as the pair.
CovResult(me, input_data, traj_lens, lag_time, evK, singular) ==
    LET ind == CovIndices(traj_lens, lag_time, 0)
        oob == \E k \in 1..Len(ind.x) :
                  ind.x[k] >= NCols(input_data) \/ ind.y[k] >= NCols(input_data)
        K   == [data |-> input_data, x |-> ind.x, y |-> ind.y]
        idx == ArgsortDesc(evK)
        ev  == Take(evK, idx)
        out == TimescaleEigs(ev)
    IN  IF oob \/ singular
        THEN [me |-> me, err |-> IF oob THEN "IndexError" ELSE "LinAlgError", locals |-> ind]
        ELSE [me |-> [me EXCEPT !.K = <<K>>, !.ev_K = ev,
                                !.vr_K = <<[n |-> Len(input_data), idx |-> idx, K |-> K]>>,
                                !.lagtime = lag_time,
                                !.timescales = [i \in 1..Len(out) |->
                                                  [lag_time |-> lag_time, ev |-> out[i]]]],
              err |-> "", locals |-> ind]

\* the numerics that can go with a call: the inversion fails for certain
\* when there is no index pair (C00 + C11 is the zero matrix); when it fails
\* no eigenvalues are computed, otherwise there is one per row
CovNumerics(input_data, traj_lens, lag_time, evK, singular) ==
    /\ CovIndices(traj_lens, lag_time, 0).x = <<>> => singular
    /\ IF singular THEN evK = <<>> ELSE Len(evK) = Len(input_data)

(* ----------------------------- persistence ---------------------------- *)

\* save(): the dictionary.  n_basis_list and n_tt_layers are the lengths of
\* basis and tt_u; the indexed keys basis_list_i, tt_u_i, tt_s_i,
\* tt_indices_i are kept as sequences, tt_s and tt_indices cut to the length
\* of tt_u as the loop of save does.  lagtime is <<value>>: the key is there.
SaveDict(me) ==
    [max_rank |-> me.max_rank, basis_list |-> me.basis_list,
     tt_u |-> me.tt_u,
     tt_s |-> SubSeq(me.tt_s, 1, Len(me.tt_u)),
     tt_indices |-> SubSeq(me.tt_indices, 1, Len(me.tt_u)),
     max_rank_is_float |-> me.max_rank_is_float,
     K |-> me.K, ev_K |-> me.ev_K, vr_K |-> me.vr_K, lagtime |-> <<me.lagtime>>,
     timescales |-> me.timescales, rank |-> me.rank_used]

\* `if 'lagtime' in dic.keys(): self._lagtime = int(dic['lagtime'])`
LoadLagtime(me, dic) == IF dic.lagtime # <<>> THEN dic.lagtime[1] ELSE me.lagtime

\* load(dic): max_rank becomes a float; _tt_intra_svd_layers and _traj_lens
\* are not part of a snapshot and keep their values
LoadDict(me, dic) ==
    [me EXCEPT !.max_rank = dic.max_rank, !.max_rank_is_float = TRUE,
               !.basis_list = dic.basis_list,
               !.tt_u = dic.tt_u, !.tt_s = dic.tt_s, !.tt_indices = dic.tt_indices,
               !.rank_used = dic.rank, !.K = dic.K, !.ev_K = dic.ev_K, !.vr_K = dic.vr_K,
               !.lagtime = LoadLagtime(me, dic), !.timescales = dic.timescales]

(* ------------------------------ actions ------------------------------- *)

Build(basis_list, sequences) ==
    \E b \in BuildResults(self, basis_list, sequences) :
        /\ self' = b.me
        /\ built' = IF b.err = "" THEN <<[sequences |-> sequences, traj_lens |-> b.ret[1].traj_lens,
                                             cvs |-> b.ret[1].cvs]>> ELSE <<>>
        /\ last' = Call("build", [sequences |-> sequences, basis_list |-> basis_list],
                        b.err, b.ret, <<>>)
        /\ UNCHANGED snap

Transform(sequences, sel, use_right_vr, do_amuset_tica) ==
    \E t \in {TransformResult(self, sequences, sel, use_right_vr, do_amuset_tica)} :
        /\ last' = Call("transform",
                        [sequences |-> sequences, sel |-> sel,
                         use_right_vr |-> use_right_vr, do_amuset_tica |-> do_amuset_tica],
                        t.err, t.ret, [rows |-> t.rows])
        /\ self' = t.me
        /\ UNCHANGED <<snap, built>>

Construct(max_rank) ==
    /\ self' = NewModel(max_rank)
    /\ built' = <<>>
    /\ last' = Call("init", <<>>, "", <<>>, <<>>)
    /\ UNCHANGED snap

Covariance(input_data, traj_lens, lag_time, evK, singular) ==
    LET c == CovResult(self, input_data, traj_lens, lag_time, evK, singular)
    IN  /\ CovNumerics(input_data, traj_lens, lag_time, evK, singular)
        /\ self' = c.me
        /\ last' = Call("covariance", [traj_lens |-> traj_lens, lag_time |-> lag_time],
                        c.err, <<>>, c.locals)
        /\ UNCHANGED <<snap, built>>

\* fit = build, then covariance on what build returned
Fit(basis_list, sequences, lag_time, evK, singular) ==
    \E b \in BuildResults(self, basis_list, sequences) :
        LET c == CovResult(b.me, b.ret[1].cvs, b.ret[1].traj_lens, lag_time, evK, singular)
        IN  /\ b.err = "" => CovNumerics(b.ret[1].cvs, b.ret[1].traj_lens,
                                         lag_time, evK, singular)
            /\ b.err # "" => (~singular /\ evK = <<>>)
            /\ self' = IF b.err = "" THEN c.me ELSE b.me
            /\ built' = IF b.err = "" THEN <<[sequences |-> sequences, traj_lens |-> b.ret[1].traj_lens,
                                             cvs |-> b.ret[1].cvs]>> ELSE <<>>
            /\ last' = Call("fit", [sequences |-> sequences, basis_list |-> basis_list,
                                    lag_time |-> lag_time],
                            IF b.err = "" THEN c.err ELSE b.err, <<>>,
                            IF b.err = "" THEN c.locals ELSE <<>>)
            /\ UNCHANGED snap

Save ==
    /\ snap' = <<SaveDict(self)>>
    /\ last' = Call("save", <<>>, "", snap', <<>>)
    /\ UNCHANGED <<self, built>>

\* the environment: the snapshot at hand is one written before the lag time
\* was saved, it has no lagtime key
LegacySnapshot ==
    /\ snap # <<>> /\ snap[1].lagtime # <<>>
    /\ snap' = <<[snap[1] EXCEPT !.lagtime = <<>>]>>
    /\ UNCHANGED <<self, built, last>>

Load ==
    /\ snap # <<>>
    /\ self' = LoadDict(self, snap[1])
    /\ built' = <<>>
    /\ last' = Call("load", [has_lagtime |-> snap[1].lagtime # <<>>,
                              fresh |-> self = NewModel(self.max_rank)], "", <<>>, <<>>)
    /\ UNCHANGED snap

(* ------------------------------- inputs ------------------------------- *)

\* the Gaussian basis functions (mean, sigma) a dimension draws from, in order
BasisPool == <<<<0, 1>>, <<2, 2>>, <<1, 1>>, <<0, 2>>>>

\* basis lists: dims feature dimensions, each with the first 0..nbasis
\* functions of the pool (the shape Basis.find returns for n_basis_list)
BasisLists(dims, nbasis) ==
    UNION {{[il \in 1..d |-> SubSeq(BasisPool, 1, cnt[il])] : cnt \in [1..d -> 0..nbasis]}
           : d \in 1..dims}

\* two frames of nfeat features, every feature taking the values 0 and 2
FrameA(nfeat) == [f \in 1..nfeat |-> IF f % 2 = 1 THEN 0 ELSE 2]

FrameB(nfeat) == [f \in 1..nfeat |-> IF f % 2 = 1 THEN 2 ELSE 0]

\* the length tables of n frames: every way to cut n frames into trajectories
LenTables(n) ==
    UNION {{lens \in [1..k -> 1..n] : SumSeq(lens) = n} : k \in 1..n}

\* every list of trajectories of at most frames frames in total whose first
\* frame is FrameA
TrajSets(frames, nfeat) ==
    UNION {{SliceRows(flat, lens, 0) :
                flat \in {f \in [1..n -> {FrameA(nfeat), FrameB(nfeat)}] : f[1] = FrameA(nfeat)},
                lens \in LenTables(n)}
           : n \in 1..frames}

\* the component selectors tried: all rank_used components as a list, and
\* the integer 1
Selectors(me) ==
    {[n |-> 1, is_int |-> TRUE, list |-> <<>>]} \cup
    (IF me.rank_used > 0
     THEN {[n |-> 0, is_int |-> FALSE, list |-> Range(0, me.rank_used)]} ELSE {})

(* ------------- SpecBuild: build and transform of one model ------------ *)

InitBuild ==
    /\ \E max_rank \in -1..MaxRank : self = NewModel(max_rank)
    /\ snap = <<>>
    /\ built = <<>>
    /\ last = Call("init", <<>>, "", <<>>, <<>>)

BuildAny ==
    \E basis_list \in BasisLists(MaxDims, MaxBasis),
       sequences \in TrajSets(MaxFrames, MaxDims) :
        Build(basis_list, sequences)

TransformAny ==
    \E sequences \in TrajSets(MaxFrames, MaxDims), sel \in Selectors(self),
       do_amuset_tica \in BOOLEAN :
        Transform(sequences, sel, TRUE, do_amuset_tica)

NextBuild == BuildAny \/ TransformAny

SpecBuild == InitBuild /\ [][NextBuild]_vars

(* ------------------------ claims under SpecBuild ---------------------- *)

BuildDone == last.op = "build" /\ last.err = ""

TransformDone == last.op = "transform" /\ last.err = ""

\* the frames x components matrix of all the rows of a reduced-coordinate matrix
AllData(cvs) == [t \in 1..NCols(cvs) |-> [c \in 1..Len(cvs) |-> Entry(cvs[c], t)]]

\* transform was called on the trajectories of the last build of this model,
\* with all rank_used components selected and without orthogonalisation
ReplayCall ==
    /\ last.op = "transform" /\ built # <<>>
    /\ last.args.sequences = built[1].sequences
    /\ ~last.args.do_amuset_tica
    /\ ~last.args.sel.is_int /\ last.args.sel.list = Range(0, self.rank_used)

\* C1 (as claimed): with max_rank <= 0, transform on the trajectories of the
\* build, all rank_used components, no orthogonalisation, returns without
\* error the reduced coordinates that build returned, in trajectory order.
C1_ReplayReproducesBuild ==
    (ReplayCall /\ self.max_rank <= 0) =>
        (last.err = "" /\ Flatten(last.ret) = AllData(built[1].cvs))

\* the replay is exact on the rows whose singular value is not zero
ReplayOnFullRank ==
    (ReplayCall /\ \A l \in 1..Len(self.tt_s) :
                        \A i \in 1..Len(self.tt_s[l]) : self.tt_s[l][i] # 0) =>
        (last.err = "" /\ Flatten(last.ret) = AllData(built[1].cvs))

\* C2 (as claimed): a build with max_rank > 0 over n feature dimensions
\* records n - 1 layers inside the loop, and one more after it.
C2_LoopLayersDimsMinusOne ==
    (BuildDone /\ self.max_rank > 0) =>
        /\ self.tt_intra_svd_layers = Len(self.basis_list) - 1
        /\ Len(self.tt_u) = self.tt_intra_svd_layers + 1

\* C2 (amended): a build with max_rank > 0 over n feature dimensions records
\* n layers inside the loop, one per dimension, and one more after it; the
\* three layer lists have that length n + 1.
C2_LoopLayersEqualDims ==
    (BuildDone /\ self.max_rank > 0) =>
        /\ self.tt_intra_svd_layers = Len(self.basis_list)
        /\ Len(self.tt_u) = Len(self.basis_list) + 1
        /\ Len(self.tt_s) = Len(self.tt_u) /\ Len(self.tt_indices) = Len(self.tt_u)

C2_Witness ==
    BuildDone /\ self.max_rank > 0 /\ Len(self.basis_list) = 2 /\ Len(self.tt_u) = 3

\* C4 (as claimed): on a model whose basis list overflows max_rank
\* (does_basis_overflow is True), a transform that returns returns [].
C4_OverflowDisablesTransform ==
    (TransformDone /\ self.rank_used > 0 /\ DoesBasisOverflow(self, self.basis_list)) =>
        last.ret = <<>>

\* C7: after a build with max_rank > 0, rank_used is at most max_rank and is
\* the number of rows of the reduced coordinates the build returned.
C7_RankWithinMaxRank ==
    (BuildDone /\ self.max_rank > 0) =>
        /\ self.rank_used <= self.max_rank
        /\ self.rank_used = Len(last.ret[1].cvs)

\* a build whose last SVD gave more rows than max_rank, which were cut
C7_Witness ==
    /\ BuildDone /\ self.max_rank > 0
    /\ self.tt_u[Len(self.tt_u)].k > self.max_rank
    /\ self.rank_used = self.max_rank

\* C9 (as claimed): after a build with max_rank <= 0, rank_used is
\* Basis.size(basis_list).
C9_RankIsBasisSize ==
    (BuildDone /\ self.max_rank <= 0) => self.rank_used = BasisSize(self.basis_list)

\* C9 (amended): after a build with max_rank <= 0, rank_used is the smaller
\* of Basis.size(basis_list) and the total number of frames.
C9_RankIsMinSizeFrames ==
    (BuildDone /\ self.max_rank <= 0) =>
        self.rank_used = Min(BasisSize(self.basis_list), SumSeq(self.traj_lens))

\* a build with fewer frames than basis functions
C9_Witness ==
    /\ BuildDone /\ self.max_rank <= 0
    /\ SumSeq(self.traj_lens) < BasisSize(self.basis_list)
    /\ self.rank_used = SumSeq(self.traj_lens)

\* C10 (as claimed): in a transform on a model built with max_rank > 0, the
\* matrix left by the last layer and the truncation has rank_used rows.
C10_TransformRowsAreRankUsed ==
    (TransformDone /\ self.max_rank > 0) => last.locals.rows = self.rank_used

(* ------------- SpecSeq: the trajectory adapter, there and back --------- *)

\* every list of trajectories of nfeat features with values 0 and 1 and at
\* most frames frames in total
SeqTrajSets(frames, nfeat) ==
    UNION {{SliceRows(flat, lens, 0) :
                flat \in [1..n -> [1..nfeat -> 0..1]], lens \in LenTables(n)}
           : n \in 1..frames}

\* the trajectories at hand are drawn at the start
InitSeq ==
    /\ self = NewModel(0)
    /\ snap = <<>>
    /\ built = <<>>
    /\ \E nfeat \in 1..MaxFeat : \E sequences \in SeqTrajSets(SeqFrames, nfeat) :
           last = Call("input", [sequences |-> sequences], "", <<>>, <<>>)

\* _convert_to_sequences(*_convert_sequences(sequences))
RoundTrip(sequences) ==
    LET c == ConvertSequences(sequences)
    IN  /\ last.op = "input"
        /\ last' = Call("round_trip", [sequences |-> sequences], "",
                        ConvertToSequences(c.data_matrix, c.traj_lens),
                        [data_matrix |-> c.data_matrix, traj_lens |-> c.traj_lens])
        /\ UNCHANGED <<self, snap, built>>

NextSeq == RoundTrip(last.args.sequences)

SpecSeq == InitSeq /\ [][NextSeq]_vars

(* ------------------------- claims under SpecSeq ----------------------- *)

RoundTripDone == last.op = "round_trip"

SeqFeatures == Len(last.args.sequences[1][1])

SeqTotalFrames == SumSeq([k \in 1..Len(last.args.sequences) |-> Len(last.args.sequences[k])])

\* C3 (as stated): converting a list of trajectories to the flattened matrix
\* and length table and back gives the same trajectories, also when there
\* are more features than frames.
C3_RoundTripAlways ==
    RoundTripDone => last.ret = last.args.sequences

\* C3 (amended): the round trip gives the same trajectories whenever the
\* feature count does not exceed the total frame count; the flattened matrix
\* always has one row per feature and the table one length per trajectory.
C3_RoundTripWhenFramesCoverFeatures ==
    RoundTripDone =>
        /\ Len(last.locals.data_matrix) = SeqFeatures
        /\ \A f \in 1..SeqFeatures : Len(last.locals.data_matrix[f]) = SeqTotalFrames
        /\ last.locals.traj_lens =
               [k \in 1..Len(last.args.sequences) |-> Len(last.args.sequences[k])]
        /\ SeqFeatures <= SeqTotalFrames => last.ret = last.args.sequences

\* two trajectories, as many features as frames, frames that differ
C3_Witness ==
    /\ RoundTripDone
    /\ Len(last.args.sequences) = 2
    /\ SeqFeatures = 2 /\ SeqTotalFrames = 2
    /\ last.args.sequences[1] # last.args.sequences[2]
    /\ last.ret = last.args.sequences

(* --------------- SpecCov: covariance of given coordinates ------------- *)

\* rows reduced coordinates over n frames, as a caller gives them
InputRows(rows, n) ==
    [i \in 1..rows |-> [e |-> Zeros(n), kind |-> "in", i |-> i, of |-> <<>>, by |-> <<>>]]

\* length tables of at most trajs trajectories of at most len frames each
CovLenTables(trajs, len) == UNION {[1..k -> 1..len] : k \in 1..trajs}

\* the eigenvalues numpy.linalg.eig can return for n rows
Spectra(n, lo, hi) == [1..n -> lo..hi]

\* the arguments of the call are drawn at the start
InitCov ==
    /\ self = NewModel(0)
    /\ snap = <<>>
    /\ built = <<>>
    /\ \E rows \in 1..MaxRows, traj_lens \in CovLenTables(MaxTrajs, MaxLen),
          lag_time \in 1..MaxLag :
           last = Call("input", [traj_lens |-> traj_lens, rows |-> rows,
                                 lag_time |-> lag_time], "", <<>>, <<>>)

\* the call is made with them, whatever the numerics give
CovarianceAny ==
    /\ last.op = "input"
    /\ \E singular \in BOOLEAN :
           \E evK \in Spectra(last.args.rows, -1, MaxEig) \cup {<<>>} :
               Covariance(InputRows(last.args.rows, SumSeq(last.args.traj_lens)),
                          last.args.traj_lens, last.args.lag_time, evK, singular)

NextCov == CovarianceAny

SpecCov == InitCov /\ [][NextCov]_vars

(* ------------------------- claims under SpecCov ----------------------- *)

CovarianceCalled == last.op = "covariance"

CovarianceDone == CovarianceCalled /\ last.err = ""

\* the 0-based column where trajectory i starts
TrajStart(traj_lens, i) == SumSeq(SubSeq(traj_lens, 1, i - 1))

\* the number of index pairs a length table gives at a lag time
PairCount(traj_lens, lag_time) ==
    SumSeq([i \in 1..Len(traj_lens) |-> Max(0, traj_lens[i] - lag_time)])

\* C6: the two index sequences pair each frame with the frame lag_time later
\* in the same trajectory: same length, y = x + lag_time entry by entry, in
\* trajectory order then frame order, no pair across a trajectory boundary,
\* and a trajectory no longer than the lag contributes no pair and no
\* index error.
C6_IndexPairsWithinTrajectories ==
    CovarianceCalled =>
        LET x    == last.locals.x
            y    == last.locals.y
            lens == last.args.traj_lens
            lag  == last.args.lag_time
        IN  /\ last.err \in {"", "LinAlgError"}
            /\ Len(x) = Len(y)
            /\ Len(x) = PairCount(lens, lag)
            /\ \A k \in 1..Len(x) : y[k] = x[k] + lag
            /\ \A k \in 1..Len(x) - 1 : x[k] < x[k + 1]
            /\ \A k \in 1..Len(x) : \E i \in 1..Len(lens) :
                   /\ TrajStart(lens, i) <= x[k]
                   /\ y[k] < TrajStart(lens, i) + lens[i]
            /\ \A i \in 1..Len(lens) : lens[i] <= lag =>
                   \A k \in 1..Len(x) :
                       ~(TrajStart(lens, i) <= x[k] /\ x[k] < TrajStart(lens, i) + lens[i])

\* a short trajectory first, then one that gives two pairs, and no error
C6_Witness ==
    /\ CovarianceDone
    /\ Len(last.args.traj_lens) = 2
    /\ last.args.traj_lens[1] <= last.args.lag_time
    /\ last.args.traj_lens[2] > last.args.lag_time + 1
    /\ Len(last.locals.x) = 2

\* C8: the timescales are those of the eigenvalues, sorted descending, from
\* index 1 on, up to and not including the first one that is not strictly
\* positive; the leading eigenvalue is skipped whatever its sign, and each
\* timescale is -lag/ln(eigenvalue).
C8_TimescalesOfLeadingPositiveRun ==
    CovarianceDone =>
        LET ev == self.ev_K
            ts == self.timescales
            n  == Len(self.timescales)
        IN  /\ \A i \in 1..Len(ev) - 1 : ev[i] >= ev[i + 1]
            /\ n <= Max(0, Len(ev) - 1)
            /\ \A i \in 1..n :
                   /\ ev[i + 1] > 0
                   /\ ts[i] = [lag_time |-> last.args.lag_time, ev |-> ev[i + 1]]
            /\ n + 2 <= Len(ev) => ~(ev[n + 2] > 0)

\* a positive leading eigenvalue, a positive second one, then a zero
C8_Witness ==
    /\ CovarianceDone
    /\ Len(self.ev_K) = 3
    /\ self.ev_K[1] > 0 /\ self.ev_K[2] > 0 /\ self.ev_K[3] = 0
    /\ Len(self.timescales) = 1

(* ------- Spec: one model is fitted, used, saved and loaded again ------ *)

Init ==
    /\ \E max_rank \in 0..LifeRank : self = NewModel(max_rank)
    /\ snap = <<>>
    /\ built = <<>>
    /\ last = Call("init", <<>>, "", <<>>, <<>>)

ConstructAny == \E max_rank \in 0..LifeRank : Construct(max_rank)

\* one trajectory of one feature and LifeFrames frames
LifeTrajs == {s \in TrajSets(LifeFrames, 1) : Len(s) = 1 /\ Len(s[1]) = LifeFrames}

\* one feature dimension with one basis function; every eigenvalue is 1
FitAny ==
    \E basis_list \in {b \in BasisLists(1, 1) : b[1] # <<>>}, sequences \in LifeTrajs,
       lag_time \in 1..LifeLag, singular \in BOOLEAN :
        \E evK \in UNION {Spectra(n, 1, 1) : n \in 0..LifeFrames} :
            Fit(basis_list, sequences, lag_time, evK, singular)

TransformLife ==
    \E sequences \in LifeTrajs, sel \in Selectors(self),
       use_right_vr \in BOOLEAN, do_amuset_tica \in BOOLEAN :
        Transform(sequences, sel, use_right_vr, do_amuset_tica)

Next == ConstructAny \/ FitAny \/ TransformLife \/ Save \/ LegacySnapshot \/ Load

Spec == Init /\ [][Next]_vars

(* -------------------------- claims under Spec ------------------------- *)

LoadDone == last.op = "load" /\ last.err = ""

\* C5: after loading a snapshot that has no lagtime entry, the lag time of
\* the model is 0, whatever the state of the model was before the load
\* (the other fields are those of the snapshot).
C5_LegacyLoadResetsLagtime ==
    (LoadDone /\ ~last.args.has_lagtime) =>
        /\ self.lagtime = 0
        /\ self.rank_used = snap[1].rank
        /\ self.ev_K = snap[1].ev_K

\* a step that is a call of transform (or leaves the record of one in place)
TransformStep == last'.op = "transform"

\* C11: transform leaves the model unchanged: whatever the trajectories, the
\* selector, the eigenvector side and the orthogonalisation, and whether the
\* call succeeds or raises, the basis list, the compression layers (count,
\* order, contents), rank_used, K, the eigenvalues, the eigenvectors, the lag
\* time and the timescales are after the call what they were before it.
C11_TransformLeavesModel ==
    [][TransformStep =>
          /\ self'.basis_list = self.basis_list
          /\ self'.tt_u = self.tt_u
          /\ self'.tt_s = self.tt_s
          /\ self'.tt_indices = self.tt_indices
          /\ self'.tt_intra_svd_layers = self.tt_intra_svd_layers
          /\ self'.rank_used = self.rank_used
          /\ self'.K = self.K
          /\ self'.ev_K = self.ev_K
          /\ self'.vr_K = self.vr_K
          /\ self'.lagtime = self.lagtime
          /\ self'.timescales = self.timescales
          /\ self'.max_rank = self.max_rank]_vars

\* a fitted model with max_rank > 0 and a layer recorded in the loop has
\* been transformed with orthogonalisation, without error
C11_Witness ==
    /\ last.op = "transform" /\ last.err = ""
    /\ last.args.do_amuset_tica
    /\ self.max_rank > 0
    /\ Len(self.tt_u) = 2
    /\ self.K # <<>>

\* the model that saved the dictionary dic, as far as a snapshot tells
SavedModel(dic) ==
    [NewModel(dic.max_rank) EXCEPT
        !.max_rank_is_float = dic.max_rank_is_float,
        !.basis_list = dic.basis_list,
        !.tt_u = dic.tt_u, !.tt_s = dic.tt_s, !.tt_indices = dic.tt_indices,
        !.rank_used = dic.rank, !.K = dic.K, !.ev_K = dic.ev_K, !.vr_K = dic.vr_K,
        !.lagtime = dic.lagtime[1], !.timescales = dic.timescales]

\* a fresh model has just loaded the dictionary saved by a fitted model
\* (one whose covariance went through, with the max_rank it was built with)
LoadedFittedSnapshot ==
    /\ LoadDone
    /\ last.args.fresh /\ last.args.has_lagtime
    /\ snap[1].lagtime # <<>>
    /\ snap[1].K # <<>>
    /\ ~snap[1].max_rank_is_float

\* C12: a fresh model that loads the dictionary saved by a fitted model m
\* (max_rank <= 0 or > 0) holds the same max_rank, basis list, layers in
\* order, rank_used, K, eigenvalues, eigenvectors, lag time and timescales,
\* and wherever m.transform gives a result its transform gives the same
\* result, without error.
C12_PersistenceRoundTrip ==
    LoadedFittedSnapshot =>
        LET m == SavedModel(snap[1])
        IN  /\ self.max_rank = m.max_rank
            /\ self.basis_list = m.basis_list
            /\ self.tt_u = m.tt_u /\ self.tt_s = m.tt_s /\ self.tt_indices = m.tt_indices
            /\ self.rank_used = m.rank_used
            /\ self.K = m.K /\ self.ev_K = m.ev_K /\ self.vr_K = m.vr_K
            /\ self.lagtime = m.lagtime /\ self.timescales = m.timescales
            /\ \A sequences \in LifeTrajs, sel \in Selectors(m),
                  use_right_vr \in BOOLEAN, do_amuset_tica \in BOOLEAN :
                   \A t \in {TransformResult(m, sequences, sel, use_right_vr,
                                             do_amuset_tica)} :
                       t.err = "" =>
                           \A u \in {TransformResult(self, sequences, sel, use_right_vr,
                                                     do_amuset_tica)} :
                               u.err = "" /\ u.ret = t.ret

(* --------- SpecLayers: one model is built and fitted repeatedly ------- *)

InitLayers ==
    /\ \E max_rank \in 0..MaxRank : self = NewModel(max_rank)
    /\ snap = <<>>
    /\ built = <<>>
    /\ last = Call("init", <<>>, "", <<>>, <<>>)

\* the trajectories fitted: one trajectory of MaxFrames frames
FitTrajs == {s \in TrajSets(MaxFrames, MaxDims) : Len(s) = 1 /\ Len(s[1]) = MaxFrames}

\* fit with a basis for every feature dimension; every eigenvalue is 1
FitLayers ==
    \E basis_list \in {b \in BasisLists(MaxDims, MaxBasis) : Len(b) = MaxDims},
       sequences \in FitTrajs, lag_time \in 1..LifeLag, singular \in BOOLEAN :
        \E evK \in UNION {Spectra(n, 1, 1) : n \in 0..MaxFrames} :
            Fit(basis_list, sequences, lag_time, evK, singular)

NextLayers == BuildAny \/ FitLayers

SpecLayers == InitLayers /\ [][NextLayers]_vars

(* ------------------------ claims under SpecLayers --------------------- *)

\* the last call was build or fit
BuiltLast == last.op \in {"build", "fit"}

\* C13: after any sequence of build and fit calls the stored layers are
\* those of the most recent build alone, in recording order: the three lists
\* have one length, they are the lists a fresh model gets from the same
\* build (nothing of an earlier build is left), there is one layer per
\* feature dimension when max_rank > 0 and then the final one, and the last
\* layer is the decomposition whose right singular vectors build returned.
C13_LayersOfLastBuild ==
    BuiltLast =>
        LET L == Len(self.tt_u)
        IN  /\ Len(self.tt_s) = L /\ Len(self.tt_indices) = L
            /\ L = (IF self.max_rank > 0 THEN Len(last.args.basis_list) ELSE 0) + 1
            /\ self.basis_list = last.args.basis_list
            /\ \E b \in BuildResults(NewModel(self.max_rank), last.args.basis_list,
                                     last.args.sequences) :
                   /\ b.me.tt_u = self.tt_u
                   /\ b.me.tt_s = self.tt_s
                   /\ b.me.tt_indices = self.tt_indices
                   /\ b.me.tt_intra_svd_layers = self.tt_intra_svd_layers
            /\ built # <<>>
            /\ \A c \in 1..Len(built[1].cvs) : built[1].cvs[c].of = <<self.tt_u[L].of>>

\* a build over one feature dimension after a fit (which had MaxDims of
\* them and so more layers), with max_rank > 0
C13_Witness ==
    /\ last.op = "build" /\ last.err = ""
    /\ self.K # <<>>
    /\ self.max_rank > 0
    /\ Len(last.args.basis_list) = 1
    /\ Len(self.tt_u) = 2

====================================================================
